---- MODULE Spec2Model ----
(***************************************************************************)
(* Model of the Vite plugin non-module-script-processor.                   *)
(*                                                                         *)
(* Text (the source document index.html, the produced dist/index.html,     *)
(* paths, file names) is a sequence of lexemes: every lexeme stands for    *)
(* the run of characters it spells ("<script", "src", "=", a quote, a      *)
(* blank, "/", "http:", "a", ".js", ...).  The two regular expressions of  *)
(* the plugin are evaluated over these sequences the way the JavaScript    *)
(* engine evaluates them over characters (leftmost match, greedy           *)
(* quantifiers, the g flag's lastIndex loop).                              *)
(*                                                                         *)
(* The hooks are invoked by a driver.  The host invokes them in its        *)
(* documented order (configResolved, then per build buildStart,            *)
(* generateBundle, closeBundle) on every document of the model.  A test    *)
(* harness may depart from that order a bounded number of times (a hook    *)
(* before configResolved, generateBundle first, buildStart after           *)
(* generateBundle, closeBundle while generateBundle is pending, ...); it   *)
(* runs on the documents made of two kinds of tags.                        *)
(* The faults of the environment are fixed when a run starts, and are      *)
(* explored on the documents made of these two kinds of tags; a harness    *)
(* run has at most one fault.                                              *)
(***************************************************************************)
EXTENDS Integers, Sequences, FiniteSets, TLC

(***************************************************************************)
(* Bounds of the model.                                                    *)
(***************************************************************************)
\* script tags in the source document
MaxTags == 2
\* invocations of buildStart, generateBundle and closeBundle that the host
\* (or a test harness) makes on one plugin instance; the host makes two
\* more on the documents of a test harness, which completes a second build
MaxCalls == 4
\* invocations among them with which a test harness departs from the
\* host's hook order
MaxStrays == 1
\* faults of the environment in one run (an unreadable index.html, a
\* missing script file, a custom minify function that throws, a failing
\* read, substitution or write of dist/index.html)
MaxFaults == 1

(***************************************************************************)
(* Option values: <<>> is null/undefined, <<x>> is the value x.            *)
(***************************************************************************)
None == <<>>
Some(x) == <<x>>

(***************************************************************************)
(* Generic text helpers (String.prototype.startsWith / endsWith, ...).     *)
(***************************************************************************)
StartsWith(s, p) == Len(s) >= Len(p) /\ SubSeq(s, 1, Len(p)) = p
EndsWithTok(s, t) == Len(s) > 0 /\ s[Len(s)] = t
Min(S) == CHOOSE x \in S : \A y \in S : x <= y
Max(S) == CHOOSE x \in S : \A y \in S : x >= y

IsWs(t) == t = " "
IsQuote(t) == t \in {"\"", "'"}

\* The i flag of SCRIPT_REGEX: a lexeme compared without regard to case.
Lower(t) ==
    CASE t = "<SCRIPT" -> "<script"
      [] t = "SRC" -> "src"
      [] t = "TYPE" -> "type"
      [] t = "MODULE" -> "module"
      [] OTHER -> t

RECURSIVE SkipWs(_, _)
\* \s* from position i: the first position that holds no blank.
SkipWs(s, i) == IF i <= Len(s) /\ IsWs(s[i]) THEN SkipWs(s, i + 1) ELSE i

\* The first position >= i holding lexeme-class member, or Len(s)+1.
FirstGt(s, i) ==
    LET G == {k \in i..Len(s) : s[k] = ">"}
    IN  IF G = {} THEN Len(s) + 1 ELSE Min(G)

FirstQuote(s, i) ==
    LET Q == {k \in i..Len(s) : IsQuote(s[k])}
    IN  IF Q = {} THEN Len(s) + 1 ELSE Min(Q)

\* name\s*=\s*["'] at position i (ci: under the i flag): the position after
\* the opening quote, or 0 when it does not match.
AttrHead(s, i, name, ci) ==
    IF i <= Len(s) /\ (IF ci THEN Lower(s[i]) ELSE s[i]) = name
    THEN LET j == SkipWs(s, i + 1)
         IN  IF j <= Len(s) /\ s[j] = "="
             THEN LET k == SkipWs(s, j + 1)
                  IN  IF k <= Len(s) /\ IsQuote(s[k]) THEN k + 1 ELSE 0
             ELSE 0
    ELSE 0

(***************************************************************************)
(* SCRIPT_REGEX                                                            *)
(*  /<script(?![^>]*type\s*=\s*["']module["'])[^>]*\ssrc\s*=\s*["']        *)
(*   ([^"']+)["'][^>]*>/gi                                                 *)
(***************************************************************************)
\* Variant of ModuleLookahead: type is looked for right after the element
\* name only.
ModuleLookaheadAdjacent(s, i) ==
    LET v == AttrHead(s, SkipWs(s, i), "type", TRUE)
    IN  /\ v # 0
        /\ v + 1 <= Len(s)
        /\ Lower(s[v]) = "module"
        /\ IsQuote(s[v + 1])

\* (?![^>]*type\s*=\s*["']module["']) looked up from position i.
ModuleLookahead(s, i) ==
    \E k \in i..(FirstGt(s, i) - 1) :
        LET v == AttrHead(s, k, "type", TRUE)
        IN  /\ v # 0
            /\ v + 1 <= Len(s)
            /\ Lower(s[v]) = "module"
            /\ IsQuote(s[v + 1])

\* \ssrc\s*=\s*["']([^"']+)["'][^>]*> with the blank at position k: the
\* captured value and the position after the match, or None.
SrcAt(s, k) ==
    IF k + 1 <= Len(s) /\ IsWs(s[k])
    THEN LET v == AttrHead(s, k + 1, "src", TRUE)
             e == FirstQuote(s, v)
             g == FirstGt(s, e + 1)
         IN  IF v # 0 /\ e <= Len(s) /\ e > v /\ g <= Len(s)
             THEN Some([src |-> SubSeq(s, v, e - 1), end |-> g + 1])
             ELSE None
    ELSE None

\* The regular expression tried at position p: the greedy [^>]* takes the
\* last blank before the first ">" from which the rest matches.
ScriptMatchAt(s, p) ==
    IF Lower(s[p]) = "<script" /\ ~ModuleLookahead(s, p + 1)
    THEN LET K == {k \in (p + 1)..(FirstGt(s, p + 1) - 1) : SrcAt(s, k) # None}
         IN  IF K = {} THEN None ELSE SrcAt(s, Max(K))
    ELSE None

RECURSIVE ScriptRegexExec(_, _)
\* SCRIPT_REGEX.exec(s) with lastIndex = from (1-based): the leftmost match.
ScriptRegexExec(s, from) ==
    IF from > Len(s) THEN None
    ELSE LET m == ScriptMatchAt(s, from)
         IN  IF m # None THEN m ELSE ScriptRegexExec(s, from + 1)

(***************************************************************************)
(* The file system: working directory, script paths, documents.            *)
(***************************************************************************)
\* process.cwd()
Cwd == <<"/", "proj">>

\* Values a src attribute takes in the documents of the model.
LocalA == <<"/", "a", ".js">>
LocalB == <<"b", ".js">>
LocalMjs == <<"/", "m", ".mjs">>
LocalCss == <<"/", "s", ".css">>
\* the path under which the host puts the file of /a.js in the first build
LocalHashed == <<"/", "assets", "/", "a", "-", "1", ".js">>
ExtHttp == <<"http:", "/", "/", "c", ".js">>
ExtHttps == <<"https:", "/", "/", "c", ".js">>
ExtProto == <<"/", "/", "c", ".js">>
ExternalPaths == {ExtHttp, ExtHttps, ExtProto}
SrcValues == {LocalA, LocalB, LocalMjs, LocalCss, LocalHashed} \cup ExternalPaths

\* A script tag as written by the document's author: the element name, the
\* type attribute (<<>> when absent), whether type is written before src,
\* the src value, the quote around it and whether blanks surround "=".
ScriptTag(elem, type, typeFirst, src, q, sp) ==
    [elem |-> elem, type |-> type, typeFirst |-> typeFirst,
     src |-> src, q |-> q, sp |-> sp]

PlainTag(src) == ScriptTag("<script", None, FALSE, src, "\"", FALSE)

\* The tags of the model's documents: every src value but b.js in a plain
\* tag, /a.js in a module tag with type before and after src, and b.js in
\* a tag with another type: type first, single quotes and blanks around
\* "="; and type last, in upper case.
TagSet ==
    {PlainTag(v) : v \in SrcValues \ {LocalB}}
    \cup {ScriptTag("<script", Some("module"), tf, LocalA, "\"", FALSE) : tf \in BOOLEAN}
    \cup {ScriptTag("<script", Some("text"), TRUE, LocalB, "'", TRUE),
          ScriptTag("<SCRIPT", Some("text"), FALSE, LocalB, "\"", FALSE)}

\* The text of an attribute and of a tag.
AttrText(name, val, q, sp) ==
    <<" ", name>> \o (IF sp THEN <<" ", "=", " ">> ELSE <<"=">>) \o <<q>> \o val \o <<q>>

TagText(t) ==
    LET srcA == AttrText(IF t.elem = "<SCRIPT" THEN "SRC" ELSE "src", t.src, t.q, t.sp)
        typeA == IF t.type = None THEN <<>> ELSE AttrText("type", <<t.type[1]>>, "\"", FALSE)
    IN  <<t.elem>> \o (IF t.typeFirst THEN typeA \o srcA ELSE srcA \o typeA)
        \o <<">", "</script>">>

RECURSIVE DocText(_)
DocText(tags) ==
    IF tags = <<>> THEN <<"<html>">>
    ELSE DocText(SubSeq(tags, 1, Len(tags) - 1)) \o TagText(tags[Len(tags)])

\* Documents of at most MaxTags script tags.
Docs == UNION {[1..n -> TagSet] : n \in 0..MaxTags}

\* The texts index.html may hold for the tags: a document, or for no tag
\* also the empty file.
HtmlTexts(tags) ==
    {DocText(tags)} \cup (IF tags = <<>> THEN {<<>>} ELSE {})

\* The documents a test harness runs the hooks on: at most two tags, which
\* are /a.js in a plain tag, and b.js.
HarnessTags ==
    {PlainTag(LocalA),
     ScriptTag("<script", Some("text"), TRUE, LocalB, "'", TRUE)}
HarnessDocs == UNION {[1..n -> HarnessTags] : n \in 0..Min({MaxTags, 2})}

(***************************************************************************)
(* Pure functions of the plugin.                                           *)
(***************************************************************************)
\* Variant of isLocalScript without the test for protocol-relative URLs.
isLocalScriptSchemeOnly(src) ==
    /\ ~StartsWith(src, <<"http:", "/", "/">>)
    /\ ~StartsWith(src, <<"https:", "/", "/">>)
    /\ Len(src) > 0

isLocalScript(src) ==
    /\ ~StartsWith(src, <<"http:", "/", "/">>)
    /\ ~StartsWith(src, <<"https:", "/", "/">>)
    /\ ~StartsWith(src, <<"/", "/">>)
    /\ Len(src) > 0

isValidScriptPath(scriptPath) ==
    EndsWithTok(scriptPath, ".js") \/ EndsWithTok(scriptPath, ".mjs")

\* src.startsWith('/') ? src.slice(1) : src
cleanSrc(src) == IF StartsWith(src, <<"/">>) THEN Tail(src) ELSE src

\* path.resolve(process.cwd(), cleanSrc): an absolute second argument
\* replaces the working directory, a relative one is appended to it.
pathResolve(base, rel) ==
    IF StartsWith(rel, <<"/">>) THEN rel
    ELSE IF rel = <<>> THEN base
    ELSE base \o <<"/">> \o rel

\* Variant of NewScript: the final name starts out as the original path.
NewScriptNamed(src) ==
    [originalPath |-> src,
     fullPath |-> pathResolve(Cwd, cleanSrc(src)),
     hashedFileName |-> src]

\* The record findNonModuleScripts pushes for a matched src.
NewScript(src) ==
    [originalPath |-> src,
     fullPath |-> pathResolve(Cwd, cleanSrc(src)),
     hashedFileName |-> <<>>]

\* Whether the match's src becomes a record (lines 127-138).
AcceptsSrc(src) ==
    isLocalScript(src) /\ isValidScriptPath(pathResolve(Cwd, cleanSrc(src)))

RECURSIVE MatchedFrom(_, _)
\* The while loop over SCRIPT_REGEX.exec (line 124): the src captured by
\* every match from lastIndex on.
MatchedFrom(html, from) ==
    LET m == ScriptRegexExec(html, from)
    IN  IF m = None THEN <<>>
        ELSE <<m[1].src>> \o MatchedFrom(html, m[1].end)

RECURSIVE ScanSrcsDistinct(_)
\* Variant of ScanSrcs: a src that has a record already gets no second one.
ScanSrcsDistinct(srcs) ==
    IF srcs = <<>> THEN <<>>
    ELSE LET front == SubSeq(srcs, 1, Len(srcs) - 1)
             src == srcs[Len(srcs)]
         IN  ScanSrcsDistinct(front)
             \o (IF AcceptsSrc(src) /\ \A j \in 1..Len(front) : front[j] # src
                 THEN <<NewScript(src)>> ELSE <<>>)

RECURSIVE ScanSrcsAborting(_)
\* Variant of ScanSrcs: the loop ends at the first local src that
\* isValidScriptPath rejects.
ScanSrcsAborting(srcs) ==
    IF srcs = <<>> THEN <<>>
    ELSE IF isLocalScript(Head(srcs)) /\ ~AcceptsSrc(Head(srcs)) THEN <<>>
    ELSE (IF AcceptsSrc(Head(srcs)) THEN <<NewScript(Head(srcs))>> ELSE <<>>)
         \o ScanSrcsAborting(Tail(srcs))

RECURSIVE ScanSrcs(_)
\* The body of the loop (lines 125-144): the records pushed for the srcs.
ScanSrcs(srcs) ==
    IF srcs = <<>> THEN <<>>
    ELSE (IF AcceptsSrc(Head(srcs)) THEN <<NewScript(Head(srcs))>> ELSE <<>>)
         \o ScanSrcs(Tail(srcs))

RECURSIVE SkippedSrcs(_)
\* The srcs of the "Skipping invalid script" warnings of the same loop.
SkippedSrcs(srcs) ==
    IF srcs = <<>> THEN <<>>
    ELSE (IF isLocalScript(Head(srcs)) /\ ~AcceptsSrc(Head(srcs))
          THEN <<Head(srcs)>> ELSE <<>>)
         \o SkippedSrcs(Tail(srcs))

\* The matches in every document text of the model, computed once.
DocTexts == {DocText(d) : d \in Docs}
MatchesOf == [html \in DocTexts |-> MatchedFrom(html, 1)]

\* findNonModuleScripts given what getHtmlContent returned (an option):
\* null and the empty string are both falsy.
findNonModuleScripts(htmlContent) ==
    IF htmlContent = None \/ htmlContent[1] = <<>> THEN <<>>
    ELSE ScanSrcs(MatchesOf[htmlContent[1]])

\* The warnings of that call.
skippedScripts(htmlContent) ==
    IF htmlContent = None \/ htmlContent[1] = <<>> THEN <<>>
    ELSE SkippedSrcs(MatchesOf[htmlContent[1]])

(***************************************************************************)
(* The rewrite of closeBundle: oldPath.replace(REGEX_ESCAPE_PATTERN,'\\$&') *)
(* and new RegExp(`src\\s*=\\s*["']${escapedPath}["']`, 'g').               *)
(***************************************************************************)
\* Lexemes holding a character of the class [.*+?^${}()|[\]\\].
HasMeta(t) == t \in {".js", ".mjs", ".css"}

\* What an unescaped "." lets the lexeme match besides itself.
Wild(t) ==
    CASE t = ".js" -> {".js", "-js"}
      [] t = ".mjs" -> {".mjs", "-mjs"}
      [] t = ".css" -> {".css", "-css"}
      [] OTHER -> {t}

\* The escaped path: every lexeme with a metacharacter gets its backslash.
escapePath(oldPath) ==
    [i \in 1..Len(oldPath) |-> [tok |-> oldPath[i], escaped |-> HasMeta(oldPath[i])]]

\* One element of the compiled pattern against one lexeme of the text.
PatMatches(e, t) == IF e.escaped THEN t = e.tok ELSE t \in Wild(e.tok)

\* src\s*=\s*["']<pattern>["'] at position i (no i flag): the position after
\* the match, or 0.
RewriteMatchAt(s, i, pat) ==
    LET v == AttrHead(s, i, "src", FALSE)
    IN  IF /\ v # 0
           /\ v + Len(pat) <= Len(s)
           /\ \A j \in 1..Len(pat) : PatMatches(pat[j], s[v + j - 1])
           /\ IsQuote(s[v + Len(pat)])
        THEN v + Len(pat) + 1
        ELSE 0

RECURSIVE ReplaceFrom(_, _, _, _)
\* String.prototype.replace(regex with g, to) from position i on.
ReplaceFrom(s, i, pat, to) ==
    IF i > Len(s) THEN <<>>
    ELSE LET e == RewriteMatchAt(s, i, pat)
         IN  IF e # 0 THEN to \o ReplaceFrom(s, e, pat, to)
             ELSE <<s[i]>> \o ReplaceFrom(s, i + 1, pat, to)

\* Variant of Replacement: the new attribute is written with single quotes.
ReplacementSingleQuoted(script) ==
    [from |-> escapePath(script.originalPath),
     to |-> <<"src", "=", "'", "/">> \o script.hashedFileName \o <<"'">>]

\* The replacement closeBundle builds for one record (lines 290-303).
Replacement(script) ==
    [from |-> escapePath(script.originalPath),
     to |-> <<"src", "=", "\"", "/">> \o script.hashedFileName \o <<"\"">>]

\* Variant of Substituted: every record is substituted, named or not.
SubstitutedAlways(script) == TRUE

\* Whether closeBundle substitutes the record (line 288).
Substituted(script) == script.hashedFileName # <<>>

RECURSIVE ApplyReplacements(_, _, _)
\* The two loops of closeBundle over records i..Len(scripts).
ApplyReplacements(html, scripts, i) ==
    IF i > Len(scripts) THEN html
    ELSE IF Substituted(scripts[i])
         THEN ApplyReplacements(
                  ReplaceFrom(html, 1, Replacement(scripts[i]).from,
                              Replacement(scripts[i]).to),
                  scripts, i + 1)
         ELSE ApplyReplacements(html, scripts, i + 1)

(***************************************************************************)
(* The host (Vite / Rolldown) as the plugin sees it.                       *)
(***************************************************************************)
Hooks == {"configResolved", "buildStart", "generateBundle", "closeBundle"}

\* emitFile with type 'chunk' may only be called in the early hooks.
EmitChunkLegal(phase) == phase = "buildStart"

\* getFileName may only be called once the chunks are generated.
GetFileNameLegal(phase) == phase \in {"generateBundle", "closeBundle"}

\* path.basename
RECURSIVE baseName(_)
baseName(path) ==
    IF path = <<>> \/ path[Len(path)] = "/" THEN <<>>
    ELSE baseName(SubSeq(path, 1, Len(path) - 1)) \o <<path[Len(path)]>>

\* fileName.replace('.js', ''): the first occurrence only.
RECURSIVE stripJs(_)
stripJs(name) ==
    IF name = <<>> THEN <<>>
    ELSE IF Head(name) = ".js" THEN Tail(name)
    ELSE <<Head(name)>> \o stripJs(Tail(name))

\* The name the plugin passes when registering a chunk (line 180).
chunkName(script) == stripJs(baseName(script.fullPath))

\* The file name the host gives an emitted file: under assets/, the name
\* without its extension, the content hash of that build, the extension.
FinalName(file) ==
    <<"assets", "/">>
    \o (IF file.type = "asset" /\ isValidScriptPath(file.name)
        THEN SubSeq(file.name, 1, Len(file.name) - 1) ELSE file.name)
    \o <<"-", ToString(file.build)>>
    \o (IF file.type = "asset" /\ isValidScriptPath(file.name)
        THEN <<file.name[Len(file.name)]>> ELSE <<".js">>)

(***************************************************************************)
(* State.                                                                  *)
(***************************************************************************)
VARIABLES
    driver,             \* who invokes the hooks: the "host", in its order, or
                        \* a test "harness", which may depart from it
    docTags,            \* the script tags the author wrote into index.html
    indexHtml,          \* the text of index.html
    htmlReadable,       \* whether readFileSync(index.html) succeeds
    missingFiles,       \* script files readFileSync fails on
    minifyThrows,       \* whether the custom minify function throws
    outputFault,        \* how closeBundle's update of dist/index.html goes:
                        \* "ok", "readFails", "writeFails" (the file cannot
                        \* be opened), "writeBreaks" (the write fails after
                        \* the file was opened), "replaceFails" (the
                        \* regular expression engine throws on the
                        \* substitution of b.js: the pattern or the result
                        \* exceeds its limits)
    minifyOption,       \* options.minify: "undefined" or "function"
    config,             \* "undefined" until configResolved stores it
    cachedHtmlContent,  \* the document cache (an option)
    cachedHtmlPath,
    nonModuleScripts,   \* the plugin's record list
    chunkIds,           \* Map originalPath -> chunkId
    hostFiles,          \* the files emitted to the host; a reference id is an index
    build,              \* number of the build cycle (closeBundle ends a cycle)
    distHtml,           \* the text of dist/index.html
    gb,                 \* the pending generateBundle invocation, if any
    logs,               \* what was logged: a set of [level, msg]
    last,               \* the last hook invoked, how it ended, whether it
                        \* wrote the output document, tried to read it, or
                        \* asked for a registration, the documents it passed
                        \* to writeFileSync (writes) and the contents the
                        \* output file held during the hook, in order (seen)
    calls,              \* hook invocations so far
    moduleCall,         \* the last resolveId or load the host made while it
                        \* built the module graph: the hook, the id, what
                        \* the hook returned (an option) and how it ended
    hist                \* history of the run, for stating properties: the
                        \* hooks in which a registration (regPhases) or a
                        \* final name (queryPhases) was requested, whether
                        \* the hooks came in the host's order (orderly,
                        \* strays), the buildStart calls and the scans made,
                        \* whether generateBundle ever ran (generated) or
                        \* ran in this build (inOutput), whether a final name
                        \* was requested in this build (queried), and whether
                        \* a registration followed one (regAfterQuery), the
                        \* reads of index.html tried (htmlReads), the final
                        \* names the host was asked for (queryCount), and
                        \* whether generateBundle ran over a record that
                        \* had its final name already (resolvedAgain), and
                        \* whether a failed write left the output document
                        \* incomplete (torn)

vars == <<driver, docTags, indexHtml, htmlReadable, missingFiles, minifyThrows,
          outputFault,
          minifyOption, config,
          cachedHtmlContent, cachedHtmlPath, nonModuleScripts, chunkIds,
          hostFiles, build, distHtml, gb, logs, last, calls, moduleCall, hist>>

envVars == <<driver, docTags, indexHtml, htmlReadable, missingFiles, minifyThrows,
            outputFault,
            minifyOption>>

\* path.resolve(process.cwd(), htmlPath) with the default htmlPath.
HtmlPath == Cwd \o <<"/", "index.html">>

VIRTUAL_MODULE_PREFIX == <<"\\0non-module-script:">>

isCustomMinify == minifyOption = "function"

Idle == [pc |-> "idle", i |-> 0]

NoModuleCall == [hook |-> "none", id |-> <<>>, result |-> None, outcome |-> "returned"]

Init ==
    /\ driver \in {"host", "harness"}
    /\ docTags \in IF driver = "host" THEN Docs ELSE HarnessDocs
    /\ indexHtml \in HtmlTexts(docTags)
    /\ htmlReadable \in BOOLEAN
    /\ missingFiles \in {{}, {pathResolve(Cwd, LocalB)}}
    /\ minifyOption \in {"undefined", "function"}
    /\ minifyThrows \in IF minifyOption = "function" THEN BOOLEAN ELSE {FALSE}
    /\ outputFault \in {"ok", "readFails", "writeFails", "writeBreaks",
                        "replaceFails"}
    /\ (IF htmlReadable THEN 0 ELSE 1) + Cardinality(missingFiles)
         + (IF minifyThrows THEN 1 ELSE 0) + (IF outputFault = "ok" THEN 0 ELSE 1)
           <= (IF docTags \notin HarnessDocs THEN 0
               ELSE IF driver = "harness" THEN Min({MaxFaults, 1})
               ELSE MaxFaults)
    /\ config = "undefined"
    /\ cachedHtmlContent = None
    /\ cachedHtmlPath = None
    /\ nonModuleScripts = <<>>
    /\ chunkIds = [p \in {} |-> 0]
    /\ hostFiles = <<>>
    /\ build = 1
    /\ distHtml = indexHtml
    /\ gb = Idle
    /\ logs = {}
    /\ last = [hook |-> "none", outcome |-> "returned", wrote |-> FALSE, read |-> FALSE, requested |-> FALSE, writes |-> <<>>, seen |-> <<>>]
    /\ calls = 0
    /\ moduleCall = NoModuleCall
    /\ hist = [regPhases |-> {}, queryPhases |-> {}, orderly |-> TRUE,
               strays |-> 0, buildStarts |-> 0, scans |-> 0, generated |-> FALSE,
               inOutput |-> FALSE, queried |-> FALSE, regAfterQuery |-> FALSE,
               htmlReads |-> 0, queryCount |-> 0, resolvedAgain |-> FALSE,
               torn |-> FALSE]

(***************************************************************************)
(* Logging.  config.logger.x(...) throws a TypeError while config is       *)
(* undefined; config?.logger?.warn(...) does nothing then.                 *)
(***************************************************************************)
LoggerUsable == config # "undefined"
Log(level, msg) == [level |-> level, msg |-> msg]

(***************************************************************************)
(* getHtmlContent                                                          *)
(***************************************************************************)
CacheHit ==
    /\ cachedHtmlContent # None
    /\ cachedHtmlContent[1] # <<>>
    /\ cachedHtmlPath = Some(HtmlPath)

\* What getHtmlContent returns.
getHtmlContent ==
    IF CacheHit THEN cachedHtmlContent
    ELSE IF htmlReadable THEN Some(indexHtml)
    ELSE None

(***************************************************************************)
(* buildStart                                                              *)
(***************************************************************************)
\* The chunk buildStart registers for a record (lines 173-181).
ChunkFor(script) ==
    [type |-> "chunk",
     id |-> VIRTUAL_MODULE_PREFIX \o script.fullPath,
     name |-> chunkName(script),
     source |-> <<>>,
     build |-> build]

\* Variant of EmitChunk: the chunk id a path already has is kept.
EmitChunkKeepingFirst(script, acc, phase) ==
    IF ~EmitChunkLegal(phase)
    THEN [acc EXCEPT !.threw = TRUE, !.regs = @ \cup {phase},
                     !.regAfter = @ \/ acc.queried]
    ELSE [acc EXCEPT
             !.files = Append(@, ChunkFor(script)),
             !.ids = @ @@ (script.originalPath :> (Len(acc.files) + 1)),
             !.scripts = Append(@, script),
             !.regs = @ \cup {phase},
             !.regAfter = @ \/ acc.queried]

\* this.emitFile({type: 'chunk', ...}), chunkIds.set and the push of lines
\* 173-185, requested in hook `phase`.  acc holds the record list, the
\* chunk ids, the host's files, whether the host threw, the hooks in which
\* a registration or a final name was requested, and whether a registration
\* was requested after a final name had been in the same build.
EmitChunk(script, acc, phase) ==
    IF ~EmitChunkLegal(phase)
    THEN [acc EXCEPT !.threw = TRUE, !.regs = @ \cup {phase},
                     !.regAfter = @ \/ acc.queried]
    ELSE [acc EXCEPT
             !.files = Append(@, ChunkFor(script)),
             !.ids = (script.originalPath :> (Len(acc.files) + 1)) @@ @,
             !.scripts = Append(@, script),
             !.regs = @ \cup {phase},
             !.regAfter = @ \/ acc.queried]

\* Variant of RegisterScript: asks the host for the chunk's final name
\* right after registering it.
RegisterScriptEager(script, acc, phase) ==
    IF isCustomMinify THEN [acc EXCEPT !.scripts = Append(@, script)]
    ELSE LET a == EmitChunk(script, acc, phase)
         IN  IF a.threw THEN a
             ELSE IF GetFileNameLegal(phase)
                  THEN [a EXCEPT !.scripts[Len(a.scripts)].hashedFileName =
                                     FinalName(a.files[Len(a.files)]),
                                 !.queries = @ \cup {phase}, !.queried = TRUE]
                  ELSE [a EXCEPT !.threw = TRUE,
                                 !.queries = @ \cup {phase}, !.queried = TRUE]

\* Variant of RegisterScript: the same request inside a try/catch that
\* swallows the host's error.
RegisterScriptProbing(script, acc, phase) ==
    IF isCustomMinify THEN [acc EXCEPT !.scripts = Append(@, script)]
    ELSE LET a == EmitChunk(script, acc, phase)
         IN  IF a.threw THEN a
             ELSE IF GetFileNameLegal(phase)
                  THEN [a EXCEPT !.scripts[Len(a.scripts)].hashedFileName =
                                     FinalName(a.files[Len(a.files)]),
                                 !.queries = @ \cup {phase}, !.queried = TRUE]
                  ELSE [a EXCEPT !.queries = @ \cup {phase}, !.queried = TRUE]

\* Variant of RegisterScript: a reference the record list already holds is
\* passed over.
RegisterScriptOnce(script, acc, phase) ==
    IF \E i \in 1..Len(acc.scripts) :
           acc.scripts[i].originalPath = script.originalPath
    THEN acc
    ELSE IF isCustomMinify THEN [acc EXCEPT !.scripts = Append(@, script)]
    ELSE EmitChunk(script, acc, phase)

\* Variant of RegisterScript: a chunk is registered whatever the minify
\* option is.
RegisterScriptAlways(script, acc, phase) == EmitChunk(script, acc, phase)

\* One iteration of the loop of buildStart (lines 170-190) in hook `phase`.
RegisterScript(script, acc, phase) ==
    IF isCustomMinify
    THEN [acc EXCEPT !.scripts = Append(@, script)]
    ELSE EmitChunk(script, acc, phase)

RECURSIVE RegisterFrom(_, _, _, _)
RegisterFrom(found, i, acc, phase) ==
    IF i > Len(found) \/ acc.threw THEN acc
    ELSE RegisterFrom(found, i + 1, RegisterScript(found[i], acc, phase), phase)

\* Whether the host, calling hooks in its documented order, calls `hook` next.
Follows(hook) ==
    CASE hook = "configResolved" -> last.hook = "none"
      [] hook = "buildStart" ->
            \/ last.hook \in {"configResolved", "closeBundle"}
            \/ last.outcome = "threw"
      [] hook = "generateBundle" ->
            last.hook = "buildStart" /\ last.outcome = "returned"
      [] hook = "closeBundle" ->
            last.hook = "generateBundle" /\ last.outcome = "returned"

\* The invocations made on one plugin instance: the host, rebuilding in
\* watch mode, goes through a whole second build on the documents of the
\* two kinds of tags.
CallLimit ==
    IF driver = "host" /\ docTags \in HarnessDocs THEN MaxCalls + 2 ELSE MaxCalls

\* The host, or a harness that departs from the host's order at most
\* MaxStrays times, invokes `hook`.
Called(hook) ==
    /\ calls < CallLimit
    /\ calls' = calls + 1
    /\ Follows(hook) \/ (driver = "harness" /\ hist.strays < MaxStrays)

Tracked(hook) ==
    [hist EXCEPT !.orderly = @ /\ Follows(hook),
                 !.strays = @ + (IF Follows(hook) THEN 0 ELSE 1)]

BuildStart ==
    /\ Called("buildStart")
    /\ LET html == getHtmlContent
           found == findNonModuleScripts(html)
           acc == RegisterFrom(found, 1,
                      [scripts |-> nonModuleScripts, ids |-> chunkIds,
                       files |-> hostFiles, threw |-> FALSE, regs |-> {},
                       queries |-> {}, regAfter |-> FALSE,
                       \* in the host's order buildStart begins a build
                       queried |-> hist.queried /\ ~Follows("buildStart")],
                      "buildStart")
       IN  /\ cachedHtmlContent' = html
           /\ cachedHtmlPath' = IF html = None THEN cachedHtmlPath ELSE Some(HtmlPath)
           /\ nonModuleScripts' = acc.scripts
           /\ chunkIds' = acc.ids
           /\ hostFiles' = acc.files
           /\ logs' = logs
                \cup (IF html = None /\ ~CacheHit
                      THEN {Log("error", "Error reading HTML file")} ELSE {})
                \cup (IF LoggerUsable /\ skippedScripts(html) # <<>>
                      THEN {Log("warn", "Skipping invalid script")} ELSE {})
           /\ last' = [hook |-> "buildStart",
                       outcome |-> IF acc.threw THEN "threw" ELSE "returned",
                       wrote |-> FALSE, read |-> FALSE,
                       requested |-> acc.regs # {},
                       writes |-> <<>>, seen |-> <<>>]
           /\ hist' = [Tracked("buildStart") EXCEPT
                          !.regPhases = @ \cup acc.regs,
                          !.queryPhases = @ \cup acc.queries,
                          !.queried = acc.queried,
                          !.inOutput = @ /\ ~Follows("buildStart"),
                          !.buildStarts = @ + 1,
                          !.scans = @ + (IF html = None THEN 0 ELSE 1),
                          !.htmlReads = @ + (IF CacheHit THEN 0 ELSE 1),
                          !.regAfterQuery = @ \/ acc.regAfter]
    /\ moduleCall' = NoModuleCall
    /\ UNCHANGED <<envVars, config, build, distHtml, gb>>

\* The host resolves its configuration before it starts a build.
ConfigResolved ==
    /\ last.hook = "none"
    /\ config' = "resolved"
    /\ last' = [hook |-> "configResolved", outcome |-> "returned", wrote |-> FALSE, read |-> FALSE, requested |-> FALSE, writes |-> <<>>, seen |-> <<>>]
    /\ hist' = hist
    /\ moduleCall' = NoModuleCall
    /\ UNCHANGED <<envVars, cachedHtmlContent, cachedHtmlPath, nonModuleScripts,
                   chunkIds, hostFiles, build, distHtml, gb, logs, calls>>

(***************************************************************************)
(* resolveId and load.  The host calls them for the ids it meets while it  *)
(* builds the module graph, after buildStart: the ids of the registered    *)
(* chunks and the ids of the project's own modules.                        *)
(***************************************************************************)
VirtualId(scriptPath) == VIRTUAL_MODULE_PREFIX \o scriptPath

\* The ids the host asks about: the virtual ids of /a.js and b.js, the file
\* of /a.js itself, and a file whose name holds the prefix further on.
ModuleIds ==
    {VirtualId(pathResolve(Cwd, cleanSrc(LocalA))),
     VirtualId(pathResolve(Cwd, cleanSrc(LocalB))),
     pathResolve(Cwd, cleanSrc(LocalA)),
     Cwd \o <<"/">> \o VIRTUAL_MODULE_PREFIX \o <<"a", ".js">>}

\* id.includes(VIRTUAL_MODULE_PREFIX)
Includes(id, tok) == \E k \in 1..Len(id) : <<id[k]>> = tok

\* Variant of resolveId: an id that holds the prefix anywhere is claimed.
resolveIdContaining(id) ==
    IF Includes(id, VIRTUAL_MODULE_PREFIX) THEN Some(id) ELSE None

\* resolveId (lines 193-199).
resolveId(id) ==
    IF StartsWith(id, VIRTUAL_MODULE_PREFIX) THEN Some(id) ELSE None

\* The content of the file at a path.
ContentOf(scriptPath) == [path |-> scriptPath]

\* Variant of load: the read error goes to the host.
loadRethrowing(id) ==
    IF StartsWith(id, VIRTUAL_MODULE_PREFIX)
    THEN LET scriptPath == SubSeq(id, Len(VIRTUAL_MODULE_PREFIX) + 1, Len(id))
         IN  IF scriptPath \notin missingFiles
             THEN [result |-> Some(ContentOf(scriptPath)), outcome |-> "returned",
                   logged |-> FALSE]
             ELSE [result |-> None, outcome |-> "threw", logged |-> FALSE]
    ELSE [result |-> None, outcome |-> "returned", logged |-> FALSE]

\* load (lines 201-219): what it returns, how it ends and whether it logged
\* its error (the catch of line 211 reports through config.logger).
load(id) ==
    IF StartsWith(id, VIRTUAL_MODULE_PREFIX)
    THEN LET scriptPath == SubSeq(id, Len(VIRTUAL_MODULE_PREFIX) + 1, Len(id))
         IN  IF scriptPath \notin missingFiles
             THEN [result |-> Some(ContentOf(scriptPath)), outcome |-> "returned",
                   logged |-> FALSE]
             ELSE IF LoggerUsable
             THEN [result |-> None, outcome |-> "returned", logged |-> TRUE]
             ELSE [result |-> None, outcome |-> "threw", logged |-> FALSE]
    ELSE [result |-> None, outcome |-> "returned", logged |-> FALSE]

\* The host builds the module graph once the first buildStart has returned.
GraphPhase ==
    /\ last.hook = "buildStart"
    /\ last.outcome = "returned"
    /\ calls = 1

ResolveId ==
    /\ GraphPhase
    /\ moduleCall.hook = "none"
    /\ \E id \in ModuleIds :
           moduleCall' = [hook |-> "resolveId", id |-> id,
                          result |-> resolveId(id), outcome |-> "returned"]
    /\ UNCHANGED <<envVars, config, cachedHtmlContent, cachedHtmlPath,
                   nonModuleScripts, chunkIds, hostFiles, build, distHtml, gb,
                   logs, last, calls, hist>>

Load ==
    /\ GraphPhase
    /\ \E id \in ModuleIds :
           LET r == load(id)
           IN  /\ moduleCall' = [hook |-> "load", id |-> id,
                                 result |-> r.result, outcome |-> r.outcome]
               /\ logs' = logs \cup (IF r.logged
                                     THEN {Log("error", "Failed to load")} ELSE {})
    /\ UNCHANGED <<envVars, config, cachedHtmlContent, cachedHtmlPath,
                   nonModuleScripts, chunkIds, hostFiles, build, distHtml, gb,
                   last, calls, hist>>

(***************************************************************************)
(* generateBundle                                                          *)
(***************************************************************************)
\* Variant of ResolveScript: the final name is asked for every record that
\* has a chunk id, named or not.
ResolveScriptAgain(i, acc, phase) ==
    LET script == acc.scripts[i]
    IN  IF script.originalPath \in DOMAIN chunkIds
        THEN IF GetFileNameLegal(phase)
             THEN [acc EXCEPT
                      !.scripts[i].hashedFileName =
                          FinalName(hostFiles[chunkIds[script.originalPath]]),
                      !.queries = @ \cup {phase},
                      !.asked = @ + 1]
             ELSE [acc EXCEPT !.threw = TRUE, !.queries = @ \cup {phase},
                              !.asked = @ + 1]
        ELSE acc

\* Variant of ResolveScript: a record that has no chunk id is given the
\* base name of its file as its final name.
ResolveScriptUnregistered(i, acc, phase) ==
    LET script == acc.scripts[i]
    IN  IF script.hashedFileName # <<>> THEN acc
        ELSE IF script.originalPath \notin DOMAIN chunkIds
        THEN [acc EXCEPT !.scripts[i].hashedFileName = baseName(script.fullPath)]
        ELSE IF GetFileNameLegal(phase)
             THEN [acc EXCEPT
                      !.scripts[i].hashedFileName =
                          FinalName(hostFiles[chunkIds[script.originalPath]]),
                      !.queries = @ \cup {phase},
                      !.asked = @ + 1]
             ELSE [acc EXCEPT !.threw = TRUE, !.queries = @ \cup {phase},
                              !.asked = @ + 1]

\* One iteration of the first loop of generateBundle (lines 230-235), run
\* in hook `phase`.
ResolveScript(i, acc, phase) ==
    LET script == acc.scripts[i]
    IN  IF script.originalPath \in DOMAIN chunkIds /\ script.hashedFileName = <<>>
        THEN IF GetFileNameLegal(phase)
             THEN [acc EXCEPT
                      !.scripts[i].hashedFileName =
                          FinalName(hostFiles[chunkIds[script.originalPath]]),
                      !.queries = @ \cup {phase},
                      !.asked = @ + 1]
             ELSE [acc EXCEPT !.threw = TRUE, !.queries = @ \cup {phase},
                              !.asked = @ + 1]
        ELSE acc

RECURSIVE ResolveFrom(_, _, _)
ResolveFrom(i, acc, phase) ==
    IF i > Len(acc.scripts) \/ acc.threw THEN acc
    ELSE ResolveFrom(i + 1, ResolveScript(i, acc, phase), phase)

RECURSIVE PassScanAborting(_, _, _)
\* Variant of PassScan: one try/catch around the whole loop, so that the
\* first failed read ends the loop.
PassScanAborting(scripts, i, missing) ==
    IF i > Len(scripts) THEN [await |-> 0, failed |-> FALSE, threw |-> FALSE]
    ELSE IF scripts[i].hashedFileName # <<>> THEN PassScanAborting(scripts, i + 1, missing)
    ELSE IF scripts[i].fullPath \in missing
         THEN [await |-> 0, failed |-> TRUE, threw |-> ~LoggerUsable]
    ELSE [await |-> i, failed |-> FALSE, threw |-> FALSE]

RECURSIVE PassScanAll(_, _, _)
\* Variant of PassScan: the loop also takes the records that have a final
\* name.
PassScanAll(scripts, i, missing) ==
    IF i > Len(scripts) THEN [await |-> 0, failed |-> FALSE, threw |-> FALSE]
    ELSE IF scripts[i].fullPath \in missing
         THEN IF LoggerUsable
              THEN [PassScanAll(scripts, i + 1, missing) EXCEPT !.failed = TRUE]
              ELSE [await |-> 0, failed |-> TRUE, threw |-> TRUE]
    ELSE [await |-> i, failed |-> FALSE, threw |-> FALSE]

RECURSIVE PassScan(_, _, _)
\* The second loop (lines 239-268) from record i up to its next await: the
\* record whose transform is awaited (0: the loop ended), whether a read
\* failed on the way, and whether reporting it threw.
PassScan(scripts, i, missing) ==
    IF i > Len(scripts) THEN [await |-> 0, failed |-> FALSE, threw |-> FALSE]
    ELSE IF scripts[i].hashedFileName # <<>> THEN PassScan(scripts, i + 1, missing)
    ELSE IF scripts[i].fullPath \in missing
         THEN IF LoggerUsable
              THEN [PassScan(scripts, i + 1, missing) EXCEPT !.failed = TRUE]
              ELSE [await |-> 0, failed |-> TRUE, threw |-> TRUE]
    ELSE [await |-> i, failed |-> FALSE, threw |-> FALSE]

\* Variant of Passthrough: the loop never runs.
PassthroughNever(scripts, i, missing) ==
    [await |-> 0, failed |-> FALSE, threw |-> FALSE]

\* The passthrough loop runs only with a custom minify function (line 238).
Passthrough(scripts, i, missing) ==
    IF isCustomMinify THEN PassScan(scripts, i, missing)
    ELSE [await |-> 0, failed |-> FALSE, threw |-> FALSE]

\* Variant of PassthroughEmitType: the passthrough registers a chunk.
PassthroughEmitChunk == "chunk"

\* The type of the file the passthrough emits (line 254).
PassthroughEmitType == "asset"

\* Variant of PromiseWhileAwaiting: the transform is started and not
\* awaited, the hook's promise is fulfilled at once.
PromiseFulfilledEarly == "returned"

\* The state of the promise generateBundle returned while the transform of
\* a record is awaited (line 248).
PromiseWhileAwaiting == "pending"

PassErrors(ps) ==
    IF ps.failed /\ LoggerUsable
    THEN {Log("error", "Error processing script file")} ELSE {}

PassOutcome(ps) ==
    IF ps.threw THEN "threw"
    ELSE IF ps.await # 0 THEN PromiseWhileAwaiting
    ELSE "returned"

\* The host writes the produced document before it closes the bundle.
ProducedHtml == indexHtml

\* Variant of BundleScripts: generateBundle scans the document itself when
\* no buildStart has left it a record.
BundleScriptsRescanned ==
    IF nonModuleScripts = <<>> THEN findNonModuleScripts(getHtmlContent)
    ELSE nonModuleScripts

\* The records generateBundle works on (lines 223, 230, 239).
BundleScripts == nonModuleScripts

GenerateBundle ==
    /\ Called("generateBundle")
    /\ gb.pc = "idle"
    /\ distHtml' = ProducedHtml
    /\ IF BundleScripts = <<>>
       THEN /\ last' = [hook |-> "generateBundle", outcome |-> "returned", wrote |-> FALSE, read |-> FALSE, requested |-> FALSE, writes |-> <<>>, seen |-> <<>>]
            /\ hist' = [Tracked("generateBundle") EXCEPT !.generated = TRUE,
                                                         !.torn = FALSE,
                                                         !.inOutput = TRUE]
            /\ UNCHANGED <<nonModuleScripts, gb, logs>>
       ELSE LET missing == missingFiles
                acc == ResolveFrom(1, [scripts |-> BundleScripts,
                                       threw |-> FALSE, queries |-> {},
                                       asked |-> 0],
                                   "generateBundle")
                ps == IF acc.threw
                      THEN [await |-> 0, failed |-> FALSE, threw |-> TRUE]
                      ELSE Passthrough(acc.scripts, 1, missing)
            IN  /\ nonModuleScripts' = acc.scripts
                /\ gb' = IF ps.await # 0 THEN [pc |-> "awaiting", i |-> ps.await]
                         ELSE Idle
                /\ logs' = logs \cup PassErrors(ps)
                /\ last' = [hook |-> "generateBundle", outcome |-> PassOutcome(ps),
                            wrote |-> FALSE, read |-> FALSE, requested |-> FALSE, writes |-> <<>>, seen |-> <<>>]
                /\ hist' = [Tracked("generateBundle") EXCEPT
                               !.generated = TRUE,
                               !.torn = FALSE,
                               !.inOutput = TRUE,
                               !.queryPhases = @ \cup acc.queries,
                               !.queryCount = @ + acc.asked,
                               !.resolvedAgain = @ \/
                                   \E i \in 1..Len(BundleScripts) :
                                       BundleScripts[i].hashedFileName # <<>>,
                               !.queried = @ \/ acc.queries # {}]
    /\ moduleCall' = NoModuleCall
    /\ UNCHANGED <<envVars, config, cachedHtmlContent, cachedHtmlPath, chunkIds,
                   hostFiles, build>>

\* The asset the passthrough emits for a record (lines 252-257).
AssetFor(script, minified) ==
    [type |-> PassthroughEmitType,
     id |-> <<>>,
     name |-> baseName(script.fullPath),
     source |-> [path |-> script.fullPath, minified |-> minified],
     build |-> build]

\* Variant of minifyCodeWithCustomFunction without its try/catch: the error
\* of the custom function goes to the caller.
minifyCodeRethrowing ==
    [minified |-> ~minifyThrows, warned |-> FALSE, threw |-> minifyThrows]

\* minifyCodeWithCustomFunction (lines 81-95) on the content of a script:
\* whether the code it returns is the minified one, whether it logged its
\* warning, and whether it threw (the catch of line 86 reports through
\* config.logger).
minifyCodeWithCustomFunction ==
    [minified |-> ~minifyThrows,
     warned |-> minifyThrows /\ LoggerUsable,
     threw |-> minifyThrows /\ ~LoggerUsable]

\* The continuation of generateBundle after `await minifyCodeWithCustomFunction`.
GenerateBundleResume ==
    /\ gb.pc = "awaiting"
    /\  LET code == minifyCodeWithCustomFunction
            missing == missingFiles
            i == gb.i
            script == nonModuleScripts[i]
            fallbackThrew == code.threw
            file == AssetFor(script, code.minified)
            emitThrew == file.type = "chunk" /\ ~EmitChunkLegal("generateBundle")
            \* the catch of line 261 reports through config.logger
            caught == fallbackThrew \/ emitThrew
            rejected == caught /\ ~LoggerUsable
            scripts2 == IF caught THEN nonModuleScripts
                        ELSE [nonModuleScripts EXCEPT ![i].hashedFileName = FinalName(file)]
            ps == IF rejected THEN [await |-> 0, failed |-> FALSE, threw |-> TRUE]
                  ELSE IF caught
                       THEN [Passthrough(scripts2, i + 1, missing) EXCEPT !.failed = TRUE]
                       ELSE Passthrough(scripts2, i + 1, missing)
        IN  /\ nonModuleScripts' = scripts2
            /\ hostFiles' = IF caught THEN hostFiles ELSE Append(hostFiles, file)
            /\ gb' = IF ps.await # 0 THEN [pc |-> "awaiting", i |-> ps.await] ELSE Idle
            /\ logs' = logs \cup PassErrors(ps)
                 \cup (IF code.warned
                       THEN {Log("warn", "Custom minification failed, using original code")}
                       ELSE {})
            /\ last' = IF last.hook = "generateBundle" /\ last.outcome = "pending"
                       THEN [last EXCEPT !.outcome = PassOutcome(ps)]
                       ELSE last
            /\ hist' = [hist EXCEPT
                           !.regPhases = @ \cup (IF ~fallbackThrew /\ file.type = "chunk"
                                                 THEN {"generateBundle"} ELSE {}),
                           !.queryPhases = @ \cup (IF caught THEN {} ELSE {"generateBundle"}),
                           !.queryCount = @ + (IF caught THEN 0 ELSE 1),
                           !.queried = @ \/ ~caught]
    /\ moduleCall' = NoModuleCall
    /\ UNCHANGED <<envVars, config, cachedHtmlContent, cachedHtmlPath, chunkIds,
                   build, distHtml, calls>>

(***************************************************************************)
(* closeBundle                                                             *)
(***************************************************************************)
\* path.resolve(process.cwd(), 'dist', 'index.html')
DistHtmlPath == Cwd \o <<"/", "dist", "/", "index.html">>

\* Variant of FileStages: the file is replaced in one step.
FileStagesAtomic(data) == <<data>>

\* writeFileSync(distHtmlPath, data) (line 311) opens the file for writing,
\* which empties it, and then writes the data: the contents the file holds
\* from then on, in order.
FileStages(data) == <<<<>>, data>>

\* What a writeFileSync that fails after it has opened the file leaves in
\* it: nothing, or the first part of the data.
PartialWrites(data) ==
    {SubSeq(data, 1, n) : n \in {0, Len(data) \div 2} \cap 0..(Len(data) - 1)}

\* Variant of UpdateWrites: the document is written after every record's
\* replacement.
UpdateWritesPerRecord(html, scripts) ==
    [i \in 1..Len(scripts) |-> ApplyReplacements(html, SubSeq(scripts, 1, i), 1)]

\* The documents closeBundle passes to writeFileSync, in order (lines
\* 307-311): one, after the replacements of all records.
UpdateWrites(html, scripts) == <<ApplyReplacements(html, scripts, 1)>>

\* Whether new RegExp or String.prototype.replace throws on the record's
\* substitution (lines 298-308).
SubstitutionThrows(script) ==
    outputFault = "replaceFails" /\ script.originalPath = LocalB

NotThrowing(script) == ~SubstitutionThrows(script)

\* How the try block of closeBundle goes (lines 281-311): the fault of the
\* environment, where "replaceFails" takes a substituted record on which the
\* engine throws.
UpdateFault ==
    IF outputFault # "replaceFails" THEN outputFault
    ELSE IF \E i \in 1..Len(nonModuleScripts) :
                Substituted(nonModuleScripts[i])
                /\ SubstitutionThrows(nonModuleScripts[i])
         THEN "replaceFails"
         ELSE "ok"

\* Variant of WritesAfterThrow: the throw is caught for its record, and the
\* document is written with the replacements of the other records.
WritesAfterThrowPerRecord(html, scripts) ==
    <<ApplyReplacements(html, SelectSeq(scripts, NotThrowing), 1)>>

\* The documents closeBundle passes to writeFileSync when a substitution
\* threw: none, the throw leaves the try block before line 311.
WritesAfterThrow(html, scripts) == <<>>

\* Variant of CatchUpdateError: the error is logged and thrown again.
RethrowUpdateError(failed) == IF failed THEN "threw" ELSE "returned"

\* How closeBundle ends when its try block failed or not (lines 312-317):
\* the catch reports through config.logger and returns.
CatchUpdateError(failed) ==
    IF failed /\ ~LoggerUsable THEN "threw" ELSE "returned"

\* Variant of CloseBundleSkips: closeBundle without its early return.
CloseBundleNeverSkips == FALSE

\* Variant of CloseBundleSkips: closeBundle returns at once when no record
\* has a final name.
CloseBundleSkipsUnnamed ==
    \A i \in 1..Len(nonModuleScripts) : nonModuleScripts[i].hashedFileName = <<>>

\* The early return of closeBundle (line 273).
CloseBundleSkips == nonModuleScripts = <<>>

CloseBundle ==
    /\ Called("closeBundle")
    /\ build' = build + 1
    /\ IF CloseBundleSkips
       THEN /\ last' = [hook |-> "closeBundle", outcome |-> "returned", wrote |-> FALSE, read |-> FALSE, requested |-> FALSE, writes |-> <<>>, seen |-> <<>>]
            /\ hist' = [Tracked("closeBundle") EXCEPT !.queried = FALSE,
                                                      !.inOutput = FALSE]
            /\ UNCHANGED <<distHtml, logs>>
       ELSE LET io == UpdateFault
                writes == IF io = "readFails" THEN <<>>
                          ELSE IF io = "replaceFails"
                               THEN WritesAfterThrow(distHtml, nonModuleScripts)
                          ELSE UpdateWrites(distHtml, nonModuleScripts)
                written == writes # <<>> /\ io \notin {"writeFails", "writeBreaks"}
            IN  \E left \in (IF io = "writeBreaks"
                             THEN PartialWrites(writes[Len(writes)])
                             ELSE IF written THEN {writes[Len(writes)]}
                             ELSE {distHtml}) :
                    /\ distHtml' = left
                    /\ logs' = logs \cup (IF io # "ok" /\ LoggerUsable
                                          THEN {Log("error", "Error updating HTML")}
                                          ELSE {})
                    /\ last' = [hook |-> "closeBundle",
                                outcome |-> CatchUpdateError(io # "ok"),
                                wrote |-> written, read |-> TRUE,
                                requested |-> FALSE,
                                writes |-> writes,
                                seen |-> IF written \/ io = "writeBreaks"
                                         THEN <<distHtml>> \o FileStages(left)
                                         ELSE <<distHtml>>]
                    /\ hist' = [Tracked("closeBundle") EXCEPT
                                   !.queried = FALSE,
                                   !.inOutput = FALSE,
                                   !.torn = io = "writeBreaks"]
    /\ moduleCall' = NoModuleCall
    /\ UNCHANGED <<envVars, config, cachedHtmlContent, cachedHtmlPath,
                   nonModuleScripts, chunkIds, hostFiles, gb>>

Next ==
    \/ ConfigResolved
    \/ BuildStart
    \/ ResolveId
    \/ Load
    \/ GenerateBundle
    \/ GenerateBundleResume
    \/ CloseBundle

Spec == Init /\ [][Next]_vars

(***************************************************************************)
(* The builds of the host in which nothing fails.  The host goes on to the *)
(* next hook of its order once a hook has returned, and the promise of the *)
(* custom minify function is settled: the steps of the build are weakly    *)
(* fair.  For the hooks after configResolved the weak fairness condition   *)
(* is written out, []<>(not enabled) \/ []<>(taken), with the guard of the *)
(* steps, HookDue, for their enabledness: a step is taken exactly when     *)
(* calls, gb or config changes.                                            *)
(***************************************************************************)
NoFaults ==
    /\ htmlReadable
    /\ missingFiles = {}
    /\ ~minifyThrows
    /\ outputFault = "ok"

InitHost == Init /\ driver = "host" /\ NoFaults

\* Whether a step of the build can be taken: configResolved, the
\* continuation of generateBundle, or a hook that Called lets through.
HookDue ==
    \/ last.hook = "none"
    \/ gb.pc = "awaiting"
    \/ /\ calls < CallLimit
       /\ \/ Follows("buildStart")
          \/ Follows("generateBundle") /\ gb.pc = "idle"
          \/ Follows("closeBundle")
          \/ driver = "harness" /\ hist.strays < MaxStrays

HostSpec ==
    /\ InitHost
    /\ [][Next]_vars
    /\ WF_vars(ConfigResolved)
    /\ ([]<>~HookDue \/ []<><<TRUE>>_<<calls, gb, config>>)

(***************************************************************************)
(* Properties.  The document is read back tag by tag: the author's j-th    *)
(* tag is the text up to the j-th "</script>".                             *)
(***************************************************************************)
IsModuleTag(t) == t.type = Some("module")
IsExternalTag(t) == t.src \in ExternalPaths
IsValidLocalTag(t) ==
    /\ ~IsModuleTag(t)
    /\ ~IsExternalTag(t)
    /\ t.src[Len(t.src)] \in {".js", ".mjs"}

RECURSIVE ValidSrcs(_)
\* The src values of the valid local non-module tags, in document order.
ValidSrcs(tags) ==
    IF tags = <<>> THEN <<>>
    ELSE ValidSrcs(SubSeq(tags, 1, Len(tags) - 1))
         \o (IF IsValidLocalTag(tags[Len(tags)]) THEN <<tags[Len(tags)].src>> ELSE <<>>)

ScriptEnds(s) == {k \in 1..Len(s) : s[k] = "</script>"}
EndOf(s, j) ==
    CHOOSE k \in ScriptEnds(s) : Cardinality({m \in ScriptEnds(s) : m <= k}) = j
TagSegment(s, j) ==
    SubSeq(s, IF j = 1 THEN 2 ELSE EndOf(s, j - 1) + 1, EndOf(s, j))

Unresolved(script) == script.hashedFileName = <<>>

\* The paths under which a file for an external reference would be emitted.
ExternalFullPaths == {pathResolve(Cwd, cleanSrc(p)) : p \in ExternalPaths}

C2_FinalNameQueriedOnlyAfterGeneration ==
    hist.queryPhases \subseteq {"generateBundle", "closeBundle"}

\* C2 witness: generateBundle asked for a final name and stored it.
C2_Witness ==
    /\ "generateBundle" \in hist.queryPhases
    /\ ~isCustomMinify
    /\ \E i \in 1..Len(nonModuleScripts) : ~Unresolved(nonModuleScripts[i])

\* C3 as stated: generateBundle called before any buildStart fails with an
\* error.
C3_GenerateBeforeStartFails ==
    (last.hook = "generateBundle" /\ hist.buildStarts = 0)
        => last.outcome = "threw"

\* C3 as amended: generateBundle called before any buildStart returns
\* normally at once: the record list is empty, nothing is asked of the host,
\* nothing is emitted and nothing is left pending.
C3_GenerateBeforeStartReturnsEmpty ==
    (last.hook = "generateBundle" /\ hist.buildStarts = 0)
        => /\ last.outcome = "returned"
           /\ nonModuleScripts = <<>>
           /\ hostFiles = <<>>
           /\ hist.queryPhases = {}
           /\ gb = Idle

\* C3 witness: generateBundle ran first on a readable document that holds
\* valid local scripts.
C3_Witness ==
    /\ last.hook = "generateBundle"
    /\ hist.buildStarts = 0
    /\ htmlReadable
    /\ ValidSrcs(docTags) # <<>>

C5_NoRegistrationAfterQuery == ~hist.regAfterQuery

\* C5 as amended: as long as the hooks are invoked in the host's order, no
\* registration is requested in a build once a final name has been.
C5_NoRegistrationAfterQueryInHostOrder ==
    hist.orderly => ~hist.regAfterQuery

\* C5 witness: in the host's order, chunks were registered and their final
\* names requested.
C5_Witness ==
    /\ hist.orderly
    /\ hist.queried
    /\ hist.regPhases # {}

\* C6: when the host, in its order, has closeBundle rewrite the document, no
\* generateBundle is pending and every record is resolved, but those whose
\* script file could not be read.
C6_RewriteAfterResolution ==
    (last.hook = "closeBundle" /\ last.wrote /\ hist.orderly)
        => /\ gb = Idle
           /\ \A i \in 1..Len(nonModuleScripts) :
                  \/ ~Unresolved(nonModuleScripts[i])
                  \/ nonModuleScripts[i].fullPath \in missingFiles

\* C6 witness: the document was rewritten after the passthrough had
\* transformed and emitted a script.
C6_Witness ==
    /\ last.hook = "closeBundle"
    /\ last.wrote
    /\ hist.orderly
    /\ isCustomMinify
    /\ \E k \in 1..Len(hostFiles) : hostFiles[k].type = "asset"

\* C7: until generateBundle has run, the final name of every record is
\* empty: the scan and buildStart do not set it.
C7_NoFinalNameBeforeGeneration ==
    ~hist.generated =>
        \A i \in 1..Len(nonModuleScripts) : Unresolved(nonModuleScripts[i])

\* C7 witness: records were scanned and registered, generateBundle has not
\* run.
C7_Witness ==
    /\ ~hist.generated
    /\ nonModuleScripts # <<>>
    /\ DOMAIN chunkIds # {}

\* C8: every scan of the document adds exactly one record for each valid
\* local non-module tag, in document order, wherever the type attribute
\* stands in the tags; external and module tags add none.
C8_ScanFindsValidLocalScripts ==
    LET srcs == ValidSrcs(docTags)
    IN  /\ Len(nonModuleScripts) = hist.scans * Len(srcs)
        /\ \A i \in 1..Len(nonModuleScripts) :
               nonModuleScripts[i].originalPath = srcs[((i - 1) % Len(srcs)) + 1]

\* C8 witness: one scan of a document with a module tag that has type after
\* src, and a valid local tag that has a type before src.
C8_Witness ==
    /\ hist.scans = 1
    /\ Len(nonModuleScripts) = 1
    /\ \E j \in 1..Len(docTags) : IsModuleTag(docTags[j]) /\ ~docTags[j].typeFirst
    /\ \E j \in 1..Len(docTags) : IsValidLocalTag(docTags[j]) /\ docTags[j].typeFirst

\* C9: an external reference (http://, https://, //) has no record, no chunk
\* id and no emitted file, and its tag in the output document is the text
\* the author wrote.
C9_ExternalUntouched ==
    /\ \A i \in 1..Len(nonModuleScripts) :
           nonModuleScripts[i].originalPath \notin ExternalPaths
    /\ DOMAIN chunkIds \cap ExternalPaths = {}
    /\ \A k \in 1..Len(hostFiles) :
           /\ hostFiles[k].type = "chunk" =>
                  hostFiles[k].id \notin {VIRTUAL_MODULE_PREFIX \o f : f \in ExternalFullPaths}
           /\ hostFiles[k].type = "asset" =>
                  hostFiles[k].source.path \notin ExternalFullPaths
    /\ ~hist.torn =>
           \A j \in 1..Len(docTags) :
               IsExternalTag(docTags[j]) =>
                   TagSegment(distHtml, j) = TagText(docTags[j])

\* C9 witness: closeBundle rewrote a document that holds an external tag and
\* changed the document.
C9_Witness ==
    /\ last.hook = "closeBundle"
    /\ last.wrote
    /\ distHtml # ProducedHtml
    /\ \E j \in 1..Len(docTags) : IsExternalTag(docTags[j])

\* C10: a tag with type="module" produces no record, and its text in the
\* output document is the text the author wrote, whatever other tags the
\* document holds.
C10_ModuleTagUntouched ==
    /\ \A i \in 1..Len(nonModuleScripts) :
           \E j \in 1..Len(docTags) :
               /\ ~IsModuleTag(docTags[j])
               /\ docTags[j].src = nonModuleScripts[i].originalPath
    /\ \A j \in 1..Len(docTags) :
           IsModuleTag(docTags[j]) =>
               TagSegment(distHtml, j) = TagText(docTags[j])

\* Whether the text holds a src attribute, in any case and either quote,
\* whose value is val.
HasSrcValue(s, val) ==
    \E i \in 1..Len(s) :
        LET v == AttrHead(s, i, "src", TRUE)
        IN  /\ v # 0
            /\ v + Len(val) <= Len(s)
            /\ SubSeq(s, v, v + Len(val) - 1) = val
            /\ IsQuote(s[v + Len(val)])

\* C11: once closeBundle has written the output document, for every record
\* with a final name the document holds a src attribute with the value "/"
\* and that name, and holds no src attribute with the record's original
\* path.
C11_RoundTrip ==
    (last.hook = "closeBundle" /\ last.wrote)
        => \A i \in 1..Len(nonModuleScripts) :
               ~Unresolved(nonModuleScripts[i])
                   => /\ HasSrcValue(distHtml,
                                     <<"/">> \o nonModuleScripts[i].hashedFileName)
                      /\ ~HasSrcValue(distHtml, nonModuleScripts[i].originalPath)

\* C12: the rewrite applied again, with the same records, to the document
\* closeBundle has just written leaves that document as it is.
C12_RewriteIdempotent ==
    (last.hook = "closeBundle" /\ last.wrote)
        => ApplyReplacements(distHtml, nonModuleScripts, 1) = distHtml

\* C13: with a custom minify function that throws, in a configured build,
\* every asset the passthrough emits holds the original content of its
\* script and the warning is logged, and generateBundle does not fail: once
\* it has returned, every record whose file could be read has the final name
\* of the asset emitted for it.
C13_PassthroughFallback ==
    (isCustomMinify /\ minifyThrows /\ LoggerUsable)
        => /\ \A k \in 1..Len(hostFiles) :
                  hostFiles[k].type = "asset"
                      => /\ ~hostFiles[k].source.minified
                         /\ Log("warn", "Custom minification failed, using original code")
                                \in logs
           /\ last.hook = "generateBundle" => last.outcome # "threw"
           /\ (last.hook = "generateBundle" /\ last.outcome = "returned")
                  => \A i \in 1..Len(nonModuleScripts) :
                         nonModuleScripts[i].fullPath \notin missingFiles
                             => \E k \in 1..Len(hostFiles) :
                                    /\ hostFiles[k].type = "asset"
                                    /\ hostFiles[k].source.path = nonModuleScripts[i].fullPath
                                    /\ nonModuleScripts[i].hashedFileName
                                           = FinalName(hostFiles[k])

\* C13 witness: generateBundle has returned after the custom function threw
\* for a record, and the record's asset was emitted.
C13_Witness ==
    /\ isCustomMinify
    /\ minifyThrows
    /\ LoggerUsable
    /\ last.hook = "generateBundle"
    /\ last.outcome = "returned"
    /\ \E k \in 1..Len(hostFiles) : hostFiles[k].type = "asset"

\* C14: when index.html cannot be read no hook throws and the plugin does
\* nothing: no record, no chunk id, no emitted file, no registration and no
\* final name requested of the host, and closeBundle neither reads nor
\* writes the output document, which stays as the host produced it.
C14_UnreadableDocumentIsNoOp ==
    ~htmlReadable
        => /\ nonModuleScripts = <<>>
           /\ DOMAIN chunkIds = {}
           /\ hostFiles = <<>>
           /\ hist.regPhases = {}
           /\ hist.queryPhases = {}
           /\ gb = Idle
           /\ last.outcome = "returned"
           /\ ~last.read
           /\ ~last.wrote
           /\ distHtml = ProducedHtml

\* C14 witness: a whole build over an unreadable document that holds valid
\* local scripts; the failed read was reported.
C14_Witness ==
    /\ ~htmlReadable
    /\ ValidSrcs(docTags) # <<>>
    /\ hist.buildStarts > 0
    /\ hist.generated
    /\ last.hook = "closeBundle"
    /\ Log("error", "Error reading HTML file") \in logs

\* C15: whatever the content of a readable index.html, the buildStart
\* scans of one plugin instance read the file once: every scan after the
\* first is served from the cache.
C15_OneReadPerInvocation ==
    (htmlReadable /\ hist.buildStarts >= 2) => hist.htmlReads = 1

\* C16 as stated: after one scan of the document no two records have the
\* same original path: a reference the document holds twice has one record.
C16_OriginalPathUnique ==
    hist.scans <= 1
        => \A i, j \in 1..Len(nonModuleScripts) :
               nonModuleScripts[i].originalPath = nonModuleScripts[j].originalPath
                   => i = j

\* C16 as amended: after one scan of the document every reference has as
\* many records as the document holds valid local non-module tags with it:
\* a reference the document holds twice has two records, with the same
\* original path and the same full path.
C16_OneRecordPerOccurrence ==
    hist.scans = 1
        => /\ \A p \in SrcValues :
                  Cardinality({i \in 1..Len(nonModuleScripts) :
                                   nonModuleScripts[i].originalPath = p})
                      = Cardinality({j \in 1..Len(docTags) :
                                         IsValidLocalTag(docTags[j]) /\ docTags[j].src = p})
           /\ \A i \in 1..Len(nonModuleScripts) :
                  /\ nonModuleScripts[i].originalPath \in SrcValues
                  /\ nonModuleScripts[i].fullPath
                         = pathResolve(Cwd, cleanSrc(nonModuleScripts[i].originalPath))

\* C16 witness: one scan of a document that holds the same valid local
\* reference twice left two records for it.
C16_Witness ==
    /\ hist.scans = 1
    /\ Len(docTags) = 2
    /\ docTags[1].src = docTags[2].src
    /\ Len(nonModuleScripts) = 2
    /\ nonModuleScripts[1].originalPath = nonModuleScripts[2].originalPath

\* C17: a record that has a final name keeps it in every step, and in every
\* step the host is asked for exactly as many final names as records get
\* one; a generateBundle that finds every record named returns normally and
\* changes no record, file, chunk id or log.
C17_ResolvedRecordsKept ==
    [][/\ \A i \in 1..Len(nonModuleScripts) :
              ~Unresolved(nonModuleScripts[i])
                  => nonModuleScripts'[i] = nonModuleScripts[i]
       /\ hist'.queryCount - hist.queryCount
              = Cardinality({i \in 1..Len(nonModuleScripts) :
                                 /\ Unresolved(nonModuleScripts[i])
                                 /\ ~Unresolved(nonModuleScripts'[i])})
       /\ (/\ calls' # calls
           /\ last'.hook = "generateBundle"
           /\ nonModuleScripts # <<>>
           /\ \A i \in 1..Len(nonModuleScripts) : ~Unresolved(nonModuleScripts[i]))
              => /\ last'.outcome = "returned"
                 /\ UNCHANGED <<nonModuleScripts, hostFiles, chunkIds, logs, gb>>
      ]_vars

\* C17 witness: generateBundle has run over records that had their final
\* names already, in the delegated mode.
C17_Witness ==
    /\ hist.resolvedAgain
    /\ ~isCustomMinify
    /\ last.hook = "generateBundle"
    /\ \A i \in 1..Len(nonModuleScripts) : ~Unresolved(nonModuleScripts[i])

\* C18: a record with a final name either has a chunk id, stored by
\* buildStart before, and the final name of a chunk registered for its file,
\* or has no chunk id and the final name of the asset the passthrough
\* emitted for its file.
C18_FinalNameHasOrigin ==
    \A i \in 1..Len(nonModuleScripts) :
        LET script == nonModuleScripts[i]
        IN  ~Unresolved(script)
                => \/ /\ script.originalPath \in DOMAIN chunkIds
                      /\ "buildStart" \in hist.regPhases
                      /\ \E k \in 1..Len(hostFiles) :
                             /\ hostFiles[k].type = "chunk"
                             /\ hostFiles[k].id = VIRTUAL_MODULE_PREFIX \o script.fullPath
                             /\ script.hashedFileName = FinalName(hostFiles[k])
                   \/ /\ script.originalPath \notin DOMAIN chunkIds
                      /\ \E k \in 1..Len(hostFiles) :
                             /\ hostFiles[k].type = "asset"
                             /\ hostFiles[k].source.path = script.fullPath
                             /\ script.hashedFileName = FinalName(hostFiles[k])

\* C18 witness: a build has named records through the passthrough; none of
\* them has a chunk id.
C18_Witness ==
    /\ isCustomMinify
    /\ hist.buildStarts > 0
    /\ DOMAIN chunkIds = {}
    /\ last.hook = "closeBundle"
    /\ \E i \in 1..Len(nonModuleScripts) : ~Unresolved(nonModuleScripts[i])

\* C19: the mode does not change during a run and the two branches do not
\* mix: with a custom minify function no chunk is registered and no chunk
\* id is stored; without one no asset is emitted and no transform is ever
\* awaited.
C19_ModeBranchesExclusive ==
    /\ isCustomMinify
           => /\ hist.regPhases = {}
              /\ DOMAIN chunkIds = {}
              /\ \A k \in 1..Len(hostFiles) : hostFiles[k].type = "asset"
    /\ ~isCustomMinify
           => /\ gb = Idle
              /\ \A k \in 1..Len(hostFiles) : hostFiles[k].type = "chunk"
              /\ \A i \in 1..Len(nonModuleScripts) :
                     nonModuleScripts[i].originalPath \in DOMAIN chunkIds

\* C19 witness: a build with a custom minify function has scanned, emitted
\* an asset and closed the bundle.
C19_Witness ==
    /\ isCustomMinify
    /\ hist.buildStarts > 0
    /\ last.hook = "closeBundle"
    /\ last.wrote
    /\ \E k \in 1..Len(hostFiles) : hostFiles[k].type = "asset"

\* C20: a local reference whose path does not end in .js or .mjs never has
\* a record; in a configured build its scan logs the warning; and the scan
\* goes on: after one scan every valid local non-module tag of the document,
\* before or after such a reference, has its record, in document order.
C20_InvalidCandidateSkipped ==
    LET invalid == {j \in 1..Len(docTags) :
                        /\ ~IsModuleTag(docTags[j])
                        /\ ~IsExternalTag(docTags[j])
                        /\ ~IsValidLocalTag(docTags[j])}
        srcs == ValidSrcs(docTags)
    IN  /\ \A i \in 1..Len(nonModuleScripts) :
               isValidScriptPath(nonModuleScripts[i].fullPath)
        /\ (invalid # {} /\ hist.scans >= 1)
               => /\ LoggerUsable
                      => Log("warn", "Skipping invalid script") \in logs
                  /\ \A j \in invalid :
                         \A i \in 1..Len(nonModuleScripts) :
                             nonModuleScripts[i].originalPath # docTags[j].src
                  /\ hist.scans = 1
                         => /\ Len(nonModuleScripts) = Len(srcs)
                            /\ \A i \in 1..Len(srcs) :
                                   nonModuleScripts[i].originalPath = srcs[i]

\* C20 witness: a configured build scanned a document whose first tag is a
\* local reference with an invalid extension and whose second tag is valid:
\* the warning is logged and the second tag has its record.
C20_Witness ==
    /\ LoggerUsable
    /\ hist.scans = 1
    /\ Len(docTags) = 2
    /\ ~IsModuleTag(docTags[1]) /\ ~IsExternalTag(docTags[1])
    /\ ~IsValidLocalTag(docTags[1])
    /\ IsValidLocalTag(docTags[2])
    /\ Len(nonModuleScripts) = 1
    /\ Log("warn", "Skipping invalid script") \in logs

\* C21: a local script whose file does not exist has no record and no chunk
\* is registered for it.
C21_MissingFileSkipped ==
    /\ \A i \in 1..Len(nonModuleScripts) :
           nonModuleScripts[i].fullPath \notin missingFiles
    /\ \A k \in 1..Len(hostFiles) :
           hostFiles[k].type = "chunk"
               => hostFiles[k].id \notin {VIRTUAL_MODULE_PREFIX \o f : f \in missingFiles}

\* C22: resolveId returns the id it was given exactly when the id starts
\* with the virtual prefix and null for every other id, and load returns
\* null for every id without the prefix; neither throws for such an id.
C22_OnlyVirtualIdsClaimed ==
    /\ moduleCall.hook = "resolveId"
           => /\ moduleCall.outcome = "returned"
              /\ IF StartsWith(moduleCall.id, VIRTUAL_MODULE_PREFIX)
                 THEN moduleCall.result = Some(moduleCall.id)
                 ELSE moduleCall.result = None
    /\ (moduleCall.hook = "load" /\ ~StartsWith(moduleCall.id, VIRTUAL_MODULE_PREFIX))
           => /\ moduleCall.outcome = "returned"
              /\ moduleCall.result = None

\* C22 witness: resolveId was asked about a real file whose name holds the
\* prefix after its first character, and declined it.
C22_Witness ==
    /\ moduleCall.hook = "resolveId"
    /\ Includes(moduleCall.id, VIRTUAL_MODULE_PREFIX)
    /\ ~StartsWith(moduleCall.id, VIRTUAL_MODULE_PREFIX)
    /\ moduleCall.result = None

\* C23: in a configured build a load of a virtual id whose file cannot be
\* read returns null without throwing and logs the error; a load of a
\* virtual id whose file can be read returns the file's content, whatever
\* loads failed before it.
C23_LoadFailureIsolated ==
    (moduleCall.hook = "load" /\ StartsWith(moduleCall.id, VIRTUAL_MODULE_PREFIX))
        => LET scriptPath == SubSeq(moduleCall.id, Len(VIRTUAL_MODULE_PREFIX) + 1,
                                    Len(moduleCall.id))
           IN  /\ (scriptPath \in missingFiles /\ LoggerUsable)
                      => /\ moduleCall.outcome = "returned"
                         /\ moduleCall.result = None
                         /\ Log("error", "Failed to load") \in logs
               /\ scriptPath \notin missingFiles
                      => /\ moduleCall.outcome = "returned"
                         /\ moduleCall.result = Some(ContentOf(scriptPath))

\* C23 witness: after the load of a missing file had failed and was logged,
\* the load of another virtual id returned its content.
C23_Witness ==
    /\ moduleCall.hook = "load"
    /\ StartsWith(moduleCall.id, VIRTUAL_MODULE_PREFIX)
    /\ moduleCall.result # None
    /\ missingFiles # {}
    /\ Log("error", "Failed to load") \in logs

\* C24: the name of every chunk registered with the host is the base name
\* of the record's file without its extension.
C24_ChunkNameWithoutExtension ==
    \A k \in 1..Len(hostFiles) :
        hostFiles[k].type = "chunk"
            => LET fileName == baseName(SubSeq(hostFiles[k].id,
                                               Len(VIRTUAL_MODULE_PREFIX) + 1,
                                               Len(hostFiles[k].id)))
               IN  hostFiles[k].name = SubSeq(fileName, 1, Len(fileName) - 1)

C26_WriteFailureReported ==
    (last.hook = "closeBundle" /\ last.writes # <<>> /\ ~last.wrote /\ LoggerUsable)
        => /\ last.outcome = "threw"
           /\ Log("error", "Error updating HTML") \in logs
           /\ ~hist.torn

\* C26 as amended: when the write of the output document fails in a
\* configured build, closeBundle logs the error and returns normally; the
\* document is left as the failed write left it: as it was, or holding only
\* a first part of the rewritten text.
C26_WriteFailureLogged ==
    (last.hook = "closeBundle" /\ last.writes # <<>> /\ ~last.wrote /\ LoggerUsable)
        => /\ last.outcome = "returned"
           /\ Log("error", "Error updating HTML") \in logs
           /\ distHtml = last.seen[Len(last.seen)]
           /\ hist.torn
                  => /\ Len(distHtml) < Len(last.writes[1])
                     /\ distHtml = SubSeq(last.writes[1], 1, Len(distHtml))

\* C26 witness: a write failed part way and left an incomplete, non-empty
\* document.
C26_Witness ==
    /\ last.hook = "closeBundle"
    /\ last.writes # <<>>
    /\ ~last.wrote
    /\ LoggerUsable
    /\ hist.torn
    /\ distHtml # <<>>

\* C27 as stated: while closeBundle overwrites the output document, the file
\* holds either the whole old content or the whole new content.
C27_AtomicOverwrite ==
    (last.hook = "closeBundle" /\ last.wrote)
        => \A k \in 1..Len(last.seen) :
               last.seen[k] \in {last.seen[1], distHtml}

\* C27 as amended: closeBundle overwrites the output document in place with
\* one writeFileSync: during the call the file holds the old content, then
\* no content, then the whole new content.
C27_OverwriteInPlace ==
    (last.hook = "closeBundle" /\ last.wrote)
        => /\ Len(last.seen) = 3
           /\ hist.orderly => last.seen[1] = ProducedHtml
           /\ last.seen[2] = <<>>
           /\ last.seen[3] = distHtml
           /\ last.writes = <<distHtml>>

\* C27 witness: the host had closeBundle rewrite a document; the old and the
\* new content differ.
C27_Witness ==
    /\ last.hook = "closeBundle"
    /\ last.wrote
    /\ hist.orderly
    /\ Len(last.seen) = 3
    /\ last.seen[1] # <<>>
    /\ last.seen[3] # last.seen[1]

\* The values "/" + final name of the records that have one.
NewPaths ==
    {<<"/">> \o nonModuleScripts[i].hashedFileName :
         i \in {k \in 1..Len(nonModuleScripts) : ~Unresolved(nonModuleScripts[k])}}

RECURSIVE ApplyReversed(_, _, _)
\* The replacements of closeBundle applied from the last record to the first.
ApplyReversed(html, scripts, i) ==
    IF i < 1 THEN html
    ELSE IF Substituted(scripts[i])
         THEN ApplyReversed(
                  ReplaceFrom(html, 1, Replacement(scripts[i]).from,
                              Replacement(scripts[i]).to),
                  scripts, i - 1)
         ELSE ApplyReversed(html, scripts, i - 1)

\* C29: the document closeBundle writes does not depend on the order in
\* which the records are substituted: substituting them from the last to
\* the first gives the same document, also when the new path of one record
\* is the original path of another.
C29_RewriteOrderIndependent ==
    (last.hook = "closeBundle" /\ last.wrote)
        => distHtml = ApplyReversed(last.seen[1], nonModuleScripts,
                                    Len(nonModuleScripts))

\* C30: only closeBundle passes a document to writeFileSync, and at most
\* once in a call; in a host build that document is the document read with
\* the replacements of all records applied to it.
C30_WrittenOnceAtEnd ==
    /\ last.hook # "closeBundle" => (last.writes = <<>> /\ ~last.wrote)
    /\ Len(last.writes) <= 1
    /\ last.wrote => last.writes = <<distHtml>>
    /\ (last.hook = "closeBundle" /\ last.writes # <<>> /\ hist.orderly)
           => last.writes[1] = ApplyReplacements(last.seen[1], nonModuleScripts, 1)

\* C30 witness: the host had closeBundle write a document in which the
\* references of two records were replaced.
C30_Witness ==
    /\ last.hook = "closeBundle"
    /\ last.wrote
    /\ hist.orderly
    /\ Len(nonModuleScripts) = 2
    /\ \A i \in 1..2 : ~Unresolved(nonModuleScripts[i])
    /\ nonModuleScripts[1].originalPath # nonModuleScripts[2].originalPath
    /\ Len(last.writes) = 1
    /\ last.writes[1] # last.seen[1]

\* C31 as stated: when no record has a final name as closeBundle is invoked
\* (also when there are records and none was named), closeBundle returns at
\* once: it neither reads nor writes the output document.
C31_NoNamedRecordIsNoOp ==
    (/\ last.hook = "closeBundle"
     /\ \A i \in 1..Len(nonModuleScripts) : Unresolved(nonModuleScripts[i]))
        => /\ ~last.read
           /\ ~last.wrote
           /\ last.writes = <<>>

\* C31 as amended: closeBundle returns at once, without reading or writing
\* the output document, when the record list is empty; when there are
\* records and none has a final name, it reads the document and passes it
\* to writeFileSync as it read it.
C31_SkipsOnlyWithoutRecords ==
    last.hook = "closeBundle"
        => /\ nonModuleScripts = <<>>
                  => (~last.read /\ ~last.wrote /\ last.writes = <<>> /\ last.seen = <<>>)
           /\ (/\ nonModuleScripts # <<>>
               /\ \A i \in 1..Len(nonModuleScripts) : Unresolved(nonModuleScripts[i]))
                  => /\ last.read
                     /\ last.seen # <<>>
                     /\ last.writes # <<>> => last.writes = <<last.seen[1]>>
                     /\ last.wrote => distHtml = last.seen[1]

\* C31 witness: in a host build no record got a final name, and closeBundle
\* read the output document and wrote it back.
C31_Witness ==
    /\ last.hook = "closeBundle"
    /\ hist.orderly
    /\ nonModuleScripts # <<>>
    /\ \A i \in 1..Len(nonModuleScripts) : Unresolved(nonModuleScripts[i])
    /\ last.read
    /\ last.wrote
    /\ last.writes = <<distHtml>>

\* Whether the text holds the attribute src="/": a reference to the empty
\* location.
HasEmptyLocation(s) ==
    \E k \in 1..Len(s) :
        LET v == AttrHead(s, k, "src", FALSE)
        IN  /\ v # 0
            /\ v + 1 <= Len(s)
            /\ s[v] = "/"
            /\ IsQuote(s[v + 1])

\* C32: in the document closeBundle has written, a tag whose src is the
\* original path of no record with a final name is as closeBundle read it,
\* and no src points at the empty location "/"; in a host build every tag
\* that refers to a record without a final name is the author's tag.
C32_OnlyNamedRecordsSubstituted ==
    (last.hook = "closeBundle" /\ last.wrote)
        => LET old == last.seen[1]
           IN  /\ Cardinality(ScriptEnds(distHtml)) = Cardinality(ScriptEnds(old))
               /\ \A j \in 1..Cardinality(ScriptEnds(old)) :
                      (\A i \in 1..Len(nonModuleScripts) :
                           Unresolved(nonModuleScripts[i])
                           \/ ~HasSrcValue(TagSegment(old, j),
                                           nonModuleScripts[i].originalPath))
                          => TagSegment(distHtml, j) = TagSegment(old, j)
               /\ ~HasEmptyLocation(distHtml)
               /\ hist.orderly
                      => \A i \in 1..Len(nonModuleScripts) :
                             Unresolved(nonModuleScripts[i])
                                 => \A j \in 1..Len(docTags) :
                                        docTags[j].src = nonModuleScripts[i].originalPath
                                            => TagSegment(distHtml, j) = TagText(docTags[j])

\* C32 witness: in a host build closeBundle rewrote the tag of a record with
\* a final name and left the tag of a record without one as it was.
C32_Witness ==
    /\ last.hook = "closeBundle"
    /\ last.wrote
    /\ hist.orderly
    /\ Len(nonModuleScripts) = 2
    /\ Len(docTags) = 2
    /\ ~Unresolved(nonModuleScripts[1])
    /\ Unresolved(nonModuleScripts[2])
    /\ TagSegment(distHtml, 1) # TagText(docTags[1])
    /\ TagSegment(distHtml, 2) = TagText(docTags[2])

\* The assets the host holds for the file at a path, and the records of that
\* file that have a final name.
AssetsOf(p) ==
    {k \in 1..Len(hostFiles) :
         hostFiles[k].type = "asset" /\ hostFiles[k].source.path = p}
NamedRecordsOf(p) ==
    {i \in 1..Len(nonModuleScripts) :
         ~Unresolved(nonModuleScripts[i]) /\ nonModuleScripts[i].fullPath = p}

\* C33: the record whose transform generateBundle awaits has no final name,
\* and the minify option is a function; without a custom function no asset
\* is emitted; with one, every file has as many assets as it has records
\* with a final name: no record's asset is emitted twice, however often
\* generateBundle runs.
C33_PassthroughOnlyForUnnamed ==
    /\ gb.pc = "awaiting"
           => /\ isCustomMinify
              /\ gb.i \in 1..Len(nonModuleScripts)
              /\ Unresolved(nonModuleScripts[gb.i])
    /\ ~isCustomMinify
           => \A k \in 1..Len(hostFiles) : hostFiles[k].type # "asset"
    /\ isCustomMinify
           => /\ \A k \in 1..Len(hostFiles) : hostFiles[k].type = "asset"
              /\ \A i \in 1..Len(nonModuleScripts) :
                     Cardinality(AssetsOf(nonModuleScripts[i].fullPath))
                         = Cardinality(NamedRecordsOf(nonModuleScripts[i].fullPath))

\* C33 witness: generateBundle ran a second time over two records whose
\* assets the first run had emitted, and emitted nothing.
C33_Witness ==
    /\ isCustomMinify
    /\ last.hook = "generateBundle"
    /\ last.outcome = "returned"
    /\ hist.resolvedAgain
    /\ Len(nonModuleScripts) = 2
    /\ \A i \in 1..2 : ~Unresolved(nonModuleScripts[i])
    /\ Len(hostFiles) = 2

\* Whether the closeBundle just invoked by the host, in a configured build,
\* had a substitution throw.
SubstitutionFailed ==
    /\ last.hook = "closeBundle"
    /\ last.read
    /\ hist.orderly
    /\ LoggerUsable
    /\ UpdateFault = "replaceFails"

\* C34 as stated: when the substitution of one record throws, the error is
\* logged and the output document is written with the replacements of the
\* other records.
C34_SubstitutionFailureIsolated ==
    SubstitutionFailed
        => /\ Log("error", "Error updating HTML") \in logs
           /\ last.wrote
           /\ distHtml = ApplyReplacements(last.seen[1],
                                           SelectSeq(nonModuleScripts, NotThrowing), 1)

\* C34 as amended: when the substitution of one record throws, closeBundle
\* logs the error and returns without writing: the output document is as it
\* was read, the replacements of the other records are not in it.
C34_SubstitutionFailureDiscardsAll ==
    SubstitutionFailed
        => /\ Log("error", "Error updating HTML") \in logs
           /\ last.outcome = "returned"
           /\ ~last.wrote
           /\ last.writes = <<>>
           /\ last.seen = <<distHtml>>
           /\ distHtml = ProducedHtml

\* C34 witness: the substitution of the second of two records with final
\* names threw; the replacement of the first would have changed the document.
C34_Witness ==
    /\ SubstitutionFailed
    /\ Len(nonModuleScripts) = 2
    /\ ~Unresolved(nonModuleScripts[1])
    /\ ~Unresolved(nonModuleScripts[2])
    /\ ~SubstitutionThrows(nonModuleScripts[1])
    /\ SubstitutionThrows(nonModuleScripts[2])
    /\ ApplyReplacements(distHtml, SubSeq(nonModuleScripts, 1, 1), 1) # distHtml

\* The files the host emitted in builds before the one that is running or
\* that closeBundle has just ended.
StaleFiles ==
    {k \in 1..Len(hostFiles) :
         hostFiles[k].build < (IF last.hook = "closeBundle" THEN build - 1 ELSE build)}

\* C35: in the builds the host makes on one plugin instance with a readable
\* document, the record list holds one record per reference the latest
\* buildStart found, and the document closeBundle has written holds no
\* reference to a file an earlier build emitted.
C35_NoLeakBetweenBuilds ==
    (hist.orderly /\ LoggerUsable /\ htmlReadable /\ hist.buildStarts >= 1)
        => /\ Len(nonModuleScripts) = Len(findNonModuleScripts(Some(indexHtml)))
           /\ (last.hook = "closeBundle" /\ last.wrote)
                  => \A k \in StaleFiles :
                         ~HasSrcValue(distHtml, <<"/">> \o FinalName(hostFiles[k]))

\* The records with a given original path.
RecordsOf(p) ==
    {i \in 1..Len(nonModuleScripts) : nonModuleScripts[i].originalPath = p}

\* C36 as stated: without a custom minify function, once the host's
\* generateBundle has returned, the i-th record has the chunk id of the i-th
\* registration and the final name of that chunk: every chunk id is
\* retained and resolved by its own record.
C36_EveryChunkIdRetained ==
    (~isCustomMinify /\ hist.orderly
     /\ last.hook = "generateBundle" /\ last.outcome = "returned")
        => /\ Len(hostFiles) = Len(nonModuleScripts)
           /\ \A i \in 1..Len(nonModuleScripts) :
                  /\ chunkIds[nonModuleScripts[i].originalPath] = i
                  /\ nonModuleScripts[i].hashedFileName = FinalName(hostFiles[i])

\* C36 as amended: without a custom minify function every record has its own
\* registration, and chunk ids are retained per original path: the id kept
\* for a path is the one registered last for it.  A record with a final name
\* has the name of a chunk registered for its path, by itself or by a later
\* record; in the host's order it is the name of its own chunk.
C36_ChunkIdRetainedPerPath ==
    ~isCustomMinify
        => /\ Len(hostFiles) = Len(nonModuleScripts)
           /\ DOMAIN chunkIds
                  = {nonModuleScripts[i].originalPath : i \in 1..Len(nonModuleScripts)}
           /\ \A p \in DOMAIN chunkIds : chunkIds[p] = Max(RecordsOf(p))
           /\ \A i \in 1..Len(nonModuleScripts) :
                  /\ hostFiles[i].id = VirtualId(nonModuleScripts[i].fullPath)
                  /\ ~Unresolved(nonModuleScripts[i])
                         => /\ \E j \in RecordsOf(nonModuleScripts[i].originalPath) :
                                   /\ j >= i
                                   /\ nonModuleScripts[i].hashedFileName
                                          = FinalName(hostFiles[j])
                            /\ hist.orderly
                                   => nonModuleScripts[i].hashedFileName
                                          = FinalName(hostFiles[i])
           /\ (hist.orderly /\ last.hook = "generateBundle" /\ last.outcome = "returned")
                  => \A i \in 1..Len(nonModuleScripts) : ~Unresolved(nonModuleScripts[i])

\* C36 witness: the host's generateBundle named two records of one build
\* that have the same original path; the chunk id of the first registration
\* was not retained.
C36_Witness ==
    /\ ~isCustomMinify
    /\ hist.orderly
    /\ last.hook = "generateBundle"
    /\ last.outcome = "returned"
    /\ Len(nonModuleScripts) = 2
    /\ hostFiles[1].build = hostFiles[2].build
    /\ nonModuleScripts[1].originalPath = nonModuleScripts[2].originalPath
    /\ chunkIds[nonModuleScripts[1].originalPath] = 2
    /\ \A i \in 1..2 : ~Unresolved(nonModuleScripts[i])

\* Whether closeBundle has ended a build in which every reference of the
\* document has its record and every record its final name.
AllRecordsNamed ==
    /\ last.hook = "closeBundle"
    /\ last.outcome = "returned"
    /\ Len(nonModuleScripts) = Len(findNonModuleScripts(Some(indexHtml)))
    /\ \A i \in 1..Len(nonModuleScripts) : ~Unresolved(nonModuleScripts[i])

\* C37 as stated: in a build of the host in which nothing fails, every
\* record eventually has its final name and the output document is
\* eventually written by closeBundle, with or without a custom minify
\* function.
C37_EveryBuildWrites ==
    <>(AllRecordsNamed /\ last.wrote)

\* C37 as amended: in a build of the host in which nothing fails, every
\* record eventually has its final name, and the output document is
\* eventually written by closeBundle when the scan found a record; when it
\* found none, closeBundle returns without reading or writing the document.
C37_BuildWithRecordsWrites ==
    <>(/\ AllRecordsNamed
       /\ nonModuleScripts # <<>> => (last.wrote /\ last.writes = <<distHtml>>)
       /\ nonModuleScripts = <<>> => (~last.wrote /\ ~last.read))

\* C37 witness: a build with a custom minify function ended; both records
\* have their final names and the document was written.
C37_Witness ==
    /\ driver = "host"
    /\ NoFaults
    /\ isCustomMinify
    /\ AllRecordsNamed
    /\ Len(nonModuleScripts) = 2
    /\ last.wrote
    /\ last.writes = <<distHtml>>
    /\ distHtml # ProducedHtml

\* C38: while configResolved has not supplied the configuration, no hook
\* ends by throwing: a failed read in load, in the passthrough or in
\* closeBundle and a custom function that threw are handled, as the scan
\* handles an unreadable document.
C38_ReportingNeverThrows ==
    ~LoggerUsable
        => /\ moduleCall.outcome # "threw"
           /\ last.outcome # "threw"

====
